---- MODULE Spec2Model ----
(***************************************************************************)
(* Read-receipt delivery pipeline of ReactEffectAtomDemo.                  *)
(*                                                                         *)
(*   useMarkMessagesAsRead.offer  (deduplication + optimistic React state) *)
(*     -> markAsReadQueue (Queue.unbounded)                                *)
(*     -> Stream.groupedWithin(25, 5 s)                                    *)
(*     -> Stream.mapEffect(markAsRead |> latch.whenOpen |> retry           *)
(*                         |> catchAllCause, concurrency 1)                *)
(*                                                                         *)
(* Time is kept in milliseconds and advances in steps of the base retry    *)
(* delay; every timer of the pipeline is a multiple of that step.  Steps   *)
(* of the fibers that need no time (taking from the queue, emitting a      *)
(* batch, starting a call when the latch is open) are urgent: the clock    *)
(* does not advance while one of them is enabled.  JavaScript runs every   *)
(* task to completion and fiber continuations are microtasks, so browser   *)
(* events (observer, focus, online/offline, HTTP responses, React mounts)  *)
(* are taken only when no urgent step is enabled.                          *)
(***************************************************************************)
EXTENDS Integers, Sequences, FiniteSets, TLC

\* ------------------------------------------------------------------ bounds
\* number of distinct message ids of the session
MaxIds == 2

\* ------------------------------------------------------- program constants
\* Stream.groupedWithin(25, ...)
BatchSize == 25
\* Stream.groupedWithin(..., Duration.seconds(5)), in milliseconds
WindowMs == 5000
\* Schedule.exponential("500 millis", ...)
BaseDelayMs == 500
\* Schedule.exponential(..., 2)
Factor == 2
\* Effect.retry({ times: 3, ... })
RetryTimes == 3

Ids == 1..MaxIds

VARIABLES
    queuedMessageIds,  \* module-level Set<string> of ids already offered
    readMessageIds,    \* React state of the mounted hook instance
    processorResult,   \* Result of batchProcessorAtom: "Initial" | "Success"
    isOnline,          \* NetworkMonitor.isOnline
    markAsReadQueue,   \* Queue.unbounded<MessageId>
    window,            \* ids collected by the running groupedWithin sink
    windowLeft,        \* ms until the groupedWithin schedule fires
    endAfterEmit,      \* schedule fired on an empty window
    sinkEnded,         \* the sink fiber of the window has completed
    batches,           \* every batch emitted so far, with its delivery state
    streamState,       \* "idle" | "running" | "failed" | "closed" (the forked runDrain)
    offered,           \* history: ids handed to unsafeOffer, in order
    writeCount,        \* history: number of setReadMessageIds writes per id
    lastOffer,         \* history: the last offer() call and what it returned
    firstAge,          \* history: ms since the first id of the window arrived,
                       \* -1 in the specifications that do not keep it
    hasFocus,          \* document.hasFocus()
    messagesWithReadStatus  \* the readAt the hook returns for each message,
                       \* <<>> in the specifications that do not keep it

vars == <<queuedMessageIds, readMessageIds, processorResult, isOnline,
          markAsReadQueue, window, windowLeft, endAfterEmit, sinkEnded,
          batches, streamState, offered, writeCount, lastOffer, firstAge,
          hasFocus, messagesWithReadStatus>>

admissionVars == <<queuedMessageIds, readMessageIds, offered, writeCount,
                   lastOffer>>
batcherVars == <<window, windowLeft, endAfterEmit, sinkEnded, firstAge>>
viewVars == <<hasFocus, messagesWithReadStatus>>

\* ---------------------------------------------------------------- helpers
Min(a, b) == IF a < b THEN a ELSE b

RECURSIVE Pow(_, _)
Pow(b, e) == IF e = 0 THEN 1 ELSE b * Pow(b, e - 1)

RECURSIVE SortedSeq(_)
SortedSeq(S) ==
    IF S = {} THEN <<>>
    ELSE LET m == CHOOSE x \in S : \A y \in S : x <= y
         IN <<m>> \o SortedSeq(S \ {m})

Occurrences(s, x) == Cardinality({k \in 1..Len(s) : s[k] = x})

\* ------------------------------------------------------------- admission
\* The part of the state offer() reads and writes.
AdmissionState ==
    [queued |-> queuedMessageIds, read |-> readMessageIds,
     queue |-> markAsReadQueue, offered |-> offered,
     writes |-> writeCount, last |-> lastOffer]

\* Result.isSuccess(processorResult)
ProcessorReady == processorResult = "Success"

\* an offer that puts the id at the head of the queue
QueueOfferFront(s, id) ==
    IF ProcessorReady
    THEN [s EXCEPT !.queue = <<id>> \o @, !.offered = Append(@, id)]
    ELSE s

\* processorResult.value.markAsReadQueue.unsafeOffer(id), if the processor is ready
QueueOffer(s, id) ==
    IF ProcessorReady
    THEN [s EXCEPT !.queue = Append(@, id), !.offered = Append(@, id)]
    ELSE s

\* setReadMessageIds((prev) => new Set(prev).add(id))
OptimisticWrite(s, id) ==
    [s EXCEPT !.read = @ \cup {id}, !.writes[id] = @ + 1]

\* offer(id) is entered; it returns undefined on every path
Called(s, id) ==
    [s EXCEPT !.last = [fresh |-> id \notin s.queued, ret |-> "undefined"]]

\* offer() without the queuedMessageIds check
offerNoDedup(s, id) ==
    LET s0 == Called(s, id)
        s1 == [s0 EXCEPT !.queued = @ \cup {id}]
    IN OptimisticWrite(QueueOffer(s1, id), id)

\* offer() that checks queuedMessageIds only after the queue offer
offerCheckAfterOffer(s, id) ==
    LET s0 == QueueOffer(Called(s, id), id)
    IN IF id \in s0.queued THEN s0
       ELSE OptimisticWrite([s0 EXCEPT !.queued = @ \cup {id}], id)

\* offer() that gives up when the processor is not ready
offerRequiresProcessor(s, id) ==
    LET s0 == Called(s, id)
    IN IF id \in s.queued \/ ~ProcessorReady THEN s0
       ELSE OptimisticWrite(QueueOffer([s0 EXCEPT !.queued = @ \cup {id}], id), id)

\* offer() that remembers an id only when it could offer it to the queue
offerDedupWhenOffered(s, id) ==
    LET s0 == Called(s, id)
        s1 == IF ProcessorReady THEN [s0 EXCEPT !.queued = @ \cup {id}] ELSE s0
    IN IF id \in s.queued THEN s0
       ELSE OptimisticWrite(QueueOffer(s1, id), id)

\* useMarkMessagesAsRead.offer
offer(s, id) ==
    LET s0 == Called(s, id)
    IN IF id \in s.queued THEN s0
       ELSE OptimisticWrite(QueueOffer([s0 EXCEPT !.queued = @ \cup {id}], id), id)

RECURSIVE OfferAll(_, _)
OfferAll(s, ids) ==
    IF ids = <<>> THEN s ELSE OfferAll(offer(s, Head(ids)), Tail(ids))

SetAdmission(s) ==
    /\ queuedMessageIds' = s.queued
    /\ readMessageIds' = s.read
    /\ markAsReadQueue' = s.queue
    /\ offered' = s.offered
    /\ writeCount' = s.writes
    /\ lastOffer' = s.last

\* ------------------------------------------------------------ network gate
\* state of NetworkMonitor.latch: open exactly while the monitor is online
LatchOpen == isOnline

\* a delivery sequence whose back-off is over and that now awaits the latch
AwaitsLatch(b) == b.status = "RETRYING" /\ b.backoffLeft = 0

\* ---------------------------------------------------------------- batcher
\* a fiber started with Effect.fork outlives the scope of the atom
RunningDetached == streamState \in {"running", "closed"}

\* Effect.forkScoped: the stream fiber, the dispatch of the current batch
\* included, runs until the scope of the atom is closed
Running == streamState = "running"

\* a batcher that flushes whatever it holds at once
TimerDueAlways == TRUE

\* a batcher without the time bound (Stream.grouped)
TimerDueNever == FALSE

\* the delay of Schedule.spaced(Duration.seconds(5)) is over
TimerDue == windowLeft = 0

\* a schedule of twice the duration
NewTimerDouble == 2 * WindowMs

\* the schedule is started anew with every window
NewTimer == WindowMs

\* a sink that counts the ids of a chunk, not those of the window
RoomPerChunk(w) == BatchSize

\* Sink.collectAllN(25): what the window can still take
Room(w) == BatchSize - Len(w)

Terminal(b) == b.status \in {"SUCCEEDED", "FAILED"}

\* mapEffect with every batch in flight at once
PullingUnbounded == TRUE

\* Stream.mapEffect(..., { concurrency: 1 }) pulls the next batch only when
\* the effect of the previous one has completed
Pulling == \A i \in 1..Len(batches) : Terminal(batches[i])

\* a sink that puts the newest chunk in front
CollectReversed(w, chunk) == chunk \o w

\* Sink.collectAllN: the chunk is appended to what the window holds
Collect(w, chunk) == w \o chunk

NewBatch(ids) ==
    [ids |-> ids, status |-> "PENDING", attempts |-> 0, backoffLeft |-> 0,
     elapsed |-> 0, gap |-> 0, waited |-> FALSE]

\* -------------------------------------------------------------- dispatcher
\* delay before retry number k + 1
BackoffLinear(k) == BaseDelayMs * (k + 1)

\* Schedule.exponential("500 millis", 2)
Backoff(k) == BaseDelayMs * Pow(Factor, k)

\* one retry more than asked for
RetryAllowedOneMore(attempts) == attempts - 1 <= RetryTimes

\* Effect.retry({ times: 3 }): a failed effect is run again up to 3 times
RetryAllowed(attempts) == attempts - 1 < RetryTimes

\* retry applied before whenOpen: only the first attempt awaits the latch
AttemptGuardFirstOnly(isRetry) == isRetry \/ LatchOpen

\* whenOpen is inside the retried effect: every attempt awaits the latch
AttemptGuard(isRetry) == LatchOpen

\* without catchAllCause the failure ends the stream
OnExhaustedPropagate == "failed"

\* Effect.catchAllCause logs the failure, the stream goes on
OnExhausted == "running"

ElapsedCap(b) == Backoff(b.attempts - 1) + BaseDelayMs

\* ------------------------------------------------------------- scheduling
\* a step that takes no time is enabled
Urgent ==
    /\ Running
    /\ \/ ~sinkEnded /\ markAsReadQueue # <<>> /\ Len(window) < BatchSize
       \/ Pulling /\ TimerDue /\ ~sinkEnded /\ ~endAfterEmit
       \/ Pulling /\ sinkEnded
       \/ \E i \in 1..Len(batches) :
             \/ batches[i].status = "PENDING" /\ AttemptGuard(FALSE)
             \/ AwaitsLatch(batches[i]) /\ AttemptGuard(TRUE)

\* ------------------------------------------------------- browser events
\* messages.filter(readAt === null && !readMessageIds.has(id)); the messages
\* of the session are the ids writeCount is defined for
unreadMessages == (DOMAIN writeCount) \ readMessageIds

\* a message without an optimistic readAt
NullReadAt == [age |-> -1, lag |-> -1]

\* what is told apart of a time span: none, or BaseDelayMs and more
Span(ms) == Min(ms, BaseDelayMs)

\* messagesWithReadStatus is computed anew: a message in read gets readAt =
\* DateTime.unsafeNow(). Of a readAt the model keeps the time since offer()
\* ran for the message (age) and how long after that run it was taken (lag)
Restamp(read) ==
    IF messagesWithReadStatus = <<>> THEN <<>>
    ELSE [id \in DOMAIN messagesWithReadStatus |->
            IF id \notin read THEN NullReadAt
            ELSE IF messagesWithReadStatus[id].age < 0
                 THEN [age |-> 0, lag |-> 0]
                 ELSE [messagesWithReadStatus[id] EXCEPT
                         !.lag = messagesWithReadStatus[id].age]]

\* React.useMemo(..., [messages, readMessageIds]): computed anew when the
\* hook renders with another readMessageIds
Memo(read) ==
    IF read = readMessageIds THEN messagesWithReadStatus ELSE Restamp(read)

\* IntersectionObserver callback for one intersecting entry
observerCallback(id) ==
    /\ ~Urgent
    /\ SetAdmission(offer(AdmissionState, id))
    /\ messagesWithReadStatus' = Memo(readMessageIds')
    /\ UNCHANGED <<processorResult, isOnline, batcherVars, batches, streamState>>
    /\ UNCHANGED hasFocus

\* window "focus" handler: offers every fully visible unread message
handleFocus(visible) ==
    /\ ~Urgent
    /\ visible \cap unreadMessages # {} \/ ~hasFocus
    /\ hasFocus' = TRUE
    /\ SetAdmission(OfferAll(AdmissionState, SortedSeq(visible \cap unreadMessages)))
    /\ messagesWithReadStatus' = Memo(readMessageIds')
    /\ UNCHANGED <<processorResult, isOnline, batcherVars, batches, streamState>>

\* window "blur": the window loses the input focus
Blur ==
    /\ ~Urgent
    /\ hasFocus
    /\ hasFocus' = FALSE
    /\ UNCHANGED <<admissionVars, processorResult, isOnline, markAsReadQueue,
                   batcherVars, batches, streamState, messagesWithReadStatus>>

\* the message list is fetched again: the hook renders with a new messages
\* array and the memo is computed anew
Refresh ==
    /\ ~Urgent
    /\ messagesWithReadStatus' = Restamp(readMessageIds)
    /\ UNCHANGED <<admissionVars, processorResult, isOnline, markAsReadQueue,
                   batcherVars, batches, streamState, hasFocus>>

\* MessageListWithReadTracking is unmounted and mounted again (messagesResult
\* left Success and came back): the new hook instance runs useState(new Set())
Remount ==
    /\ ~Urgent
    /\ readMessageIds' = {}
    /\ messagesWithReadStatus' = Restamp({})
    /\ UNCHANGED <<queuedMessageIds, processorResult, isOnline, markAsReadQueue,
                   batcherVars, batches, streamState, offered, writeCount,
                   lastOffer>>
    /\ UNCHANGED hasFocus

\* batchProcessorAtom resolves: queue created, stream forked
ProcessorStart ==
    /\ processorResult = "Initial"
    /\ processorResult' = "Success"
    /\ streamState' = "running"
    /\ windowLeft' = NewTimer
    /\ UNCHANGED <<admissionVars, isOnline, markAsReadQueue, window,
                   endAfterEmit, sinkEnded, batches, firstAge>>
    /\ UNCHANGED viewVars

\* window "online" event
handleOnline ==
    /\ ~isOnline
    /\ ~Urgent
    /\ isOnline' = TRUE
    /\ UNCHANGED <<admissionVars, processorResult, markAsReadQueue,
                   batcherVars, batches, streamState>>
    /\ UNCHANGED viewVars

\* window "offline" event
handleOffline ==
    /\ isOnline
    /\ ~Urgent
    /\ isOnline' = FALSE
    /\ UNCHANGED <<admissionVars, processorResult, markAsReadQueue,
                   batcherVars, batches, streamState>>
    /\ UNCHANGED viewVars

\* --------------------------------------------------------- fiber steps
\* the new value of the history variable firstAge, where it is kept
Kept(age) == IF firstAge < 0 THEN firstAge ELSE age

\* the sink takes the next ids of the queue, as many as the chunk holds and
\* the window has room for
SinkTake(n) ==
    /\ Running
    /\ ~sinkEnded
    /\ n \in 1..Min(Len(markAsReadQueue), Room(window))
    /\ window' = Collect(window, SubSeq(markAsReadQueue, 1, n))
    /\ markAsReadQueue' = SubSeq(markAsReadQueue, n + 1, Len(markAsReadQueue))
    /\ sinkEnded' = (Len(window') >= BatchSize \/ endAfterEmit)
    /\ UNCHANGED <<queuedMessageIds, readMessageIds, processorResult,
                   isOnline, windowLeft, endAfterEmit, batches, streamState,
                   offered, writeCount, lastOffer, firstAge>>
    /\ UNCHANGED viewVars

\* Schedule.spaced(5 s) fires: a window that holds ids ends now, an empty
\* one ends with the next chunk
TimerFires ==
    /\ Running
    /\ Pulling
    /\ TimerDue
    /\ ~sinkEnded
    /\ ~endAfterEmit
    /\ endAfterEmit' = TRUE
    /\ sinkEnded' = (window # <<>>)
    /\ UNCHANGED <<admissionVars, processorResult, isOnline,
                   markAsReadQueue, window, windowLeft, batches, streamState,
                   firstAge>>
    /\ UNCHANGED viewVars

\* the ended window is emitted as a batch; a new sink and a new timer start
EmitBatch ==
    /\ Running
    /\ Pulling
    /\ sinkEnded
    /\ batches' = Append(batches, NewBatch(window))
    /\ window' = <<>>
    /\ windowLeft' = NewTimer
    /\ endAfterEmit' = FALSE
    /\ sinkEnded' = FALSE
    /\ firstAge' = Kept(0)
    /\ UNCHANGED <<admissionVars, processorResult, isOnline,
                   markAsReadQueue, streamState>>
    /\ UNCHANGED viewVars

\* first attempt of a batch
StartCall(i) ==
    /\ i \in 1..Len(batches)
    /\ Running
    /\ batches[i].status = "PENDING"
    /\ AttemptGuard(FALSE)
    /\ batches' = [batches EXCEPT ![i].status = "ELIGIBLE", ![i].attempts = 1]
    /\ UNCHANGED <<admissionVars, processorResult, isOnline,
                   markAsReadQueue, batcherVars, streamState>>
    /\ UNCHANGED viewVars

\* a retry that builds its payload anew from what has been collected since
RetryAttemptRereads(i) ==
    /\ i \in 1..Len(batches)
    /\ Running
    /\ AwaitsLatch(batches[i])
    /\ AttemptGuard(TRUE)
    /\ batches' = [batches EXCEPT
                     ![i].ids = @ \o window,
                     ![i].status = "ELIGIBLE",
                     ![i].attempts = @ + 1,
                     ![i].gap = batches[i].elapsed,
                     ![i].elapsed = 0]
    /\ window' = <<>>
    /\ UNCHANGED <<admissionVars, processorResult, isOnline, markAsReadQueue,
                   windowLeft, endAfterEmit, sinkEnded, firstAge, streamState>>
    /\ UNCHANGED viewVars

\* the schedule's delay is over: the effect, whenOpen included, is run again
RetryAttempt(i) ==
    /\ i \in 1..Len(batches)
    /\ Running
    /\ AwaitsLatch(batches[i])
    /\ AttemptGuard(TRUE)
    /\ batches' = [batches EXCEPT
                     ![i].status = "ELIGIBLE",
                     ![i].attempts = @ + 1,
                     ![i].gap = batches[i].elapsed,
                     ![i].elapsed = 0]
    /\ UNCHANGED <<admissionVars, processorResult, isOnline,
                   markAsReadQueue, batcherVars, streamState>>
    /\ UNCHANGED viewVars

\* a stream that starts the delivery of an abandoned batch over
FinishedRestarts(b, status) ==
    [NewBatch(b.ids) EXCEPT
        !.status = IF status = "FAILED" THEN "PENDING" ELSE status]

\* what is kept of a batch whose delivery sequence is over
Finished(b, status) == [NewBatch(b.ids) EXCEPT !.status = status]

\* markAsRead returns
CallSucceeds(i) ==
    /\ i \in 1..Len(batches)
    /\ ~Urgent
    /\ Running
    /\ batches[i].status = "ELIGIBLE"
    /\ batches' = [batches EXCEPT ![i] = Finished(@, "SUCCEEDED")]
    /\ UNCHANGED <<admissionVars, processorResult, isOnline,
                   markAsReadQueue, batcherVars, streamState>>
    /\ UNCHANGED viewVars

\* a dispatcher that puts the ids of an abandoned batch back into the queue
CallFailsRequeue(i) ==
    /\ i \in 1..Len(batches)
    /\ ~Urgent
    /\ Running
    /\ batches[i].status = "ELIGIBLE"
    /\ IF RetryAllowed(batches[i].attempts)
       THEN /\ batches' = [batches EXCEPT
                             ![i].status = "RETRYING",
                             ![i].backoffLeft = Backoff(batches[i].attempts - 1),
                             ![i].elapsed = 0,
                             ![i].gap = 0,
                             ![i].waited = FALSE]
            /\ UNCHANGED <<streamState, markAsReadQueue>>
       ELSE /\ batches' = [batches EXCEPT ![i] = Finished(@, "FAILED")]
            /\ streamState' = OnExhausted
            /\ markAsReadQueue' = markAsReadQueue \o batches[i].ids
    /\ UNCHANGED <<admissionVars, processorResult, isOnline, batcherVars>>
    /\ UNCHANGED viewVars

\* a dispatcher that closes the latch itself when it abandons a batch
CallFailsClosesLatch(i) ==
    /\ i \in 1..Len(batches)
    /\ ~Urgent
    /\ Running
    /\ batches[i].status = "ELIGIBLE"
    /\ IF RetryAllowed(batches[i].attempts)
       THEN /\ batches' = [batches EXCEPT
                             ![i].status = "RETRYING",
                             ![i].backoffLeft = Backoff(batches[i].attempts - 1),
                             ![i].elapsed = 0,
                             ![i].gap = 0,
                             ![i].waited = FALSE]
            /\ UNCHANGED <<streamState, isOnline>>
       ELSE /\ batches' = [batches EXCEPT ![i] = Finished(@, "FAILED")]
            /\ streamState' = OnExhausted
            /\ isOnline' = FALSE
    /\ UNCHANGED <<admissionVars, processorResult, markAsReadQueue, batcherVars>>
    /\ UNCHANGED viewVars

\* markAsRead fails: back off and retry, or give up
CallFails(i) ==
    /\ i \in 1..Len(batches)
    /\ ~Urgent
    /\ Running
    /\ batches[i].status = "ELIGIBLE"
    /\ IF RetryAllowed(batches[i].attempts)
       THEN /\ batches' = [batches EXCEPT
                             ![i].status = "RETRYING",
                             ![i].backoffLeft = Backoff(batches[i].attempts - 1),
                             ![i].elapsed = 0,
                             ![i].gap = 0,
                             ![i].waited = FALSE]
            /\ UNCHANGED streamState
       ELSE /\ batches' = [batches EXCEPT ![i] = Finished(@, "FAILED")]
            /\ streamState' = OnExhausted
    /\ UNCHANGED <<admissionVars, processorResult, isOnline,
                   markAsReadQueue, batcherVars>>
    /\ UNCHANGED viewVars

TimerRuns == Running /\ windowLeft > 0

Sleeps(b) == b.status = "RETRYING" /\ (b.backoffLeft > 0 \/ b.elapsed < ElapsedCap(b))

\* BaseDelayMs pass for one batch; a batch whose back-off is then over while
\* the latch is closed has waited on the latch
TickBatch(b) ==
    IF b.status # "RETRYING" THEN b
    ELSE [b EXCEPT !.backoffLeft = IF @ > 0 THEN @ - BaseDelayMs ELSE 0,
                   !.elapsed = Min(@ + BaseDelayMs, ElapsedCap(b)),
                   !.waited = @ \/ (b.backoffLeft <= BaseDelayMs /\ ~LatchOpen)]

\* BaseDelayMs milliseconds pass
Tick ==
    /\ ~Urgent
    /\ TimerRuns \/ (Running /\ \E i \in 1..Len(batches) : Sleeps(batches[i]))
    /\ windowLeft' = IF TimerRuns THEN windowLeft - BaseDelayMs ELSE windowLeft
    /\ batches' = [i \in 1..Len(batches) |-> TickBatch(batches[i])]
    /\ firstAge' = Kept(IF window = <<>> THEN 0
                        ELSE Min(firstAge + BaseDelayMs, WindowMs + BaseDelayMs))
    /\ messagesWithReadStatus' =
          [id \in DOMAIN messagesWithReadStatus |->
              IF messagesWithReadStatus[id].age < 0 THEN NullReadAt
              ELSE [messagesWithReadStatus[id] EXCEPT
                      !.age = Span(@ + BaseDelayMs)]]
    /\ UNCHANGED <<admissionVars, processorResult, isOnline,
                   markAsReadQueue, window, endAfterEmit, sinkEnded, streamState>>
    /\ UNCHANGED hasFocus

\* ---------------------------------------------------------- specification
Init ==
    /\ queuedMessageIds = {}
    /\ readMessageIds = {}
    /\ processorResult = "Initial"
    /\ isOnline \in BOOLEAN
    /\ markAsReadQueue = <<>>
    /\ window = <<>>
    /\ windowLeft = WindowMs
    /\ endAfterEmit = FALSE
    /\ sinkEnded = FALSE
    /\ batches = <<>>
    /\ streamState = "idle"
    /\ offered = <<>>
    /\ writeCount = [id \in Ids |-> 0]
    /\ lastOffer = [fresh |-> FALSE, ret |-> "none"]
    /\ firstAge = -1
    /\ hasFocus = TRUE
    /\ messagesWithReadStatus = <<>>

Next ==
    \/ \E id \in Ids : observerCallback(id)
    \/ \E visible \in SUBSET Ids : handleFocus(visible)
    \/ Remount
    \/ ProcessorStart
    \/ handleOnline
    \/ handleOffline
    \/ \E n \in 1..BatchSize : SinkTake(n)
    \/ TimerFires
    \/ EmitBatch
    \/ \E i \in 1..Len(batches) : StartCall(i)
    \/ \E i \in 1..Len(batches) : RetryAttempt(i)
    \/ \E i \in 1..Len(batches) : CallSucceeds(i)
    \/ \E i \in 1..Len(batches) : CallFails(i)
    \/ Tick

Spec == Init /\ [][Next]_vars

\* ------------------------------------------------- a long message list
\* more unread messages than one batch holds
BurstIds == 1..(BatchSize + MaxIds)

\* how many messages, from the first on, are fully visible at a focus event
BurstSizes == {BatchSize - 1, BatchSize + MaxIds}

InitBurst ==
    /\ queuedMessageIds = {}
    /\ readMessageIds = {}
    /\ processorResult = "Initial"
    /\ isOnline \in BOOLEAN
    /\ markAsReadQueue = <<>>
    /\ window = <<>>
    /\ windowLeft = WindowMs
    /\ endAfterEmit = FALSE
    /\ sinkEnded = FALSE
    /\ batches = <<>>
    /\ streamState = "idle"
    /\ offered = <<>>
    /\ writeCount = [id \in BurstIds |-> 0]
    /\ lastOffer = [fresh |-> FALSE, ret |-> "none"]
    /\ firstAge = -1
    /\ hasFocus = TRUE
    /\ messagesWithReadStatus = <<>>

NextBurst ==
    \/ \E k \in BurstSizes : handleFocus(1..k)
    \/ ProcessorStart
    \/ handleOnline
    \/ handleOffline
    \/ \E n \in 1..BatchSize : SinkTake(n)
    \/ TimerFires
    \/ EmitBatch
    \/ \E i \in 1..Len(batches) : StartCall(i)
    \/ \E i \in 1..Len(batches) : RetryAttempt(i)
    \/ \E i \in 1..Len(batches) : CallSucceeds(i)
    \/ \E i \in 1..Len(batches) : CallFails(i)
    \/ Tick

SpecBurst == InitBurst /\ [][NextBurst]_vars

\* ------------------------------------------------- focus and read status
\* the window can lose the input focus
NextFocus == Blur \/ Next

SpecFocus == Init /\ [][NextFocus]_vars

\* the readAt of every message is kept, and the list can be fetched again
InitView ==
    /\ queuedMessageIds = {}
    /\ readMessageIds = {}
    /\ processorResult = "Initial"
    /\ isOnline \in BOOLEAN
    /\ markAsReadQueue = <<>>
    /\ window = <<>>
    /\ windowLeft = WindowMs
    /\ endAfterEmit = FALSE
    /\ sinkEnded = FALSE
    /\ batches = <<>>
    /\ streamState = "idle"
    /\ offered = <<>>
    /\ writeCount = [id \in Ids |-> 0]
    /\ lastOffer = [fresh |-> FALSE, ret |-> "none"]
    /\ firstAge = -1
    /\ hasFocus = TRUE
    /\ messagesWithReadStatus = [id \in Ids |-> NullReadAt]

NextView == Next \/ Refresh

SpecView == InitView /\ [][NextView]_vars

\* ------------------------------------------------------------ teardown
\* the scope of batchProcessorAtom is closed (the registry is disposed or the
\* atom is rebuilt): the fiber forked with forkScoped is interrupted, with
\* the batch it is delivering; the queue object stays with whoever holds it
Teardown ==
    /\ ~Urgent
    /\ Running
    /\ streamState' = "closed"
    /\ UNCHANGED <<admissionVars, processorResult, isOnline, markAsReadQueue,
                   batcherVars, batches>>
    /\ UNCHANGED viewVars

\* ------------------------------------------------------------ fairness
\* a step of the forked stream fiber: the runtime runs a fiber that can run
FiberStep ==
    \/ \E n \in 1..BatchSize : SinkTake(n)
    \/ TimerFires
    \/ EmitBatch
    \/ \E i \in 1..Len(batches) : StartCall(i)
    \/ \E i \in 1..Len(batches) : RetryAttempt(i)

\* the request of markAsRead comes back, with a result or with an error
CallReturns ==
    \E i \in 1..Len(batches) : CallSucceeds(i) \/ CallFails(i)

\* the messages scroll into view one after the other, in the order of the
\* list, and the list stays mounted
NextLive ==
    \/ \E id \in Ids :
          /\ \A earlier \in 1..(id - 1) : earlier \in queuedMessageIds
          /\ observerCallback(id)
    \/ ProcessorStart
    \/ handleOnline
    \/ handleOffline
    \/ FiberStep
    \/ CallReturns
    \/ Tick

\* fibers are run, requests return and time passes
SpecLive ==
    /\ Init
    /\ [][NextLive]_vars
    /\ WF_vars(FiberStep)
    /\ WF_vars(CallReturns)
    /\ WF_vars(Tick)

\* the same list, with the age of the oldest id of the window kept
InitLatency ==
    /\ queuedMessageIds = {}
    /\ readMessageIds = {}
    /\ processorResult = "Initial"
    /\ isOnline \in BOOLEAN
    /\ markAsReadQueue = <<>>
    /\ window = <<>>
    /\ windowLeft = WindowMs
    /\ endAfterEmit = FALSE
    /\ sinkEnded = FALSE
    /\ batches = <<>>
    /\ streamState = "idle"
    /\ offered = <<>>
    /\ writeCount = [id \in Ids |-> 0]
    /\ lastOffer = [fresh |-> FALSE, ret |-> "none"]
    /\ firstAge = 0
    /\ hasFocus = TRUE
    /\ messagesWithReadStatus = <<>>

SpecLatency == InitLatency /\ [][NextLive]_vars

\* the same list, with a scope that can be closed at any moment
NextTeardown == NextLive \/ Teardown

SpecTeardown == Init /\ [][NextTeardown]_vars

\* ================================================================ properties
\* a call of offer() in which every id passed is already in queuedMessageIds
DuplicateCall ==
    /\ UNCHANGED <<batches, windowLeft, isOnline, processorResult>>
    /\ \/ \E id \in queuedMessageIds : observerCallback(id)
       \/ \E visible \in SUBSET Ids :
             /\ (visible \cap unreadMessages) \subseteq queuedMessageIds
             /\ handleFocus(visible)

\* a call of offer(id), from the observer or from the focus handler
CallOf(id) ==
    /\ UNCHANGED <<batches, windowLeft, isOnline, processorResult>>
    /\ \/ observerCallback(id)
       \/ \E visible \in SUBSET Ids :
             id \in visible \cap unreadMessages /\ handleFocus(visible)

\* markAsRead is invoked for batch i in this step
CallStarted(i) ==
    batches[i].status # "ELIGIBLE" /\ batches'[i].status = "ELIGIBLE"

\* the ids of s were offered to the queue in the order they have in s
InOfferOrder(s) ==
    \A p, q \in 1..Len(s) :
        p < q => \E a, b \in 1..Len(offered) :
                    a < b /\ offered[a] = s[p] /\ offered[b] = s[q]

\* C1 as stated: whatever the pipeline state, an id passed to offer() one or
\* more times has exactly one queue offer and exactly one optimistic write.
C1_ExactlyOneOfferAndWrite ==
    \A id \in queuedMessageIds :
        Occurrences(offered, id) = 1 /\ writeCount[id] = 1

\* C1 amended: an id passed to offer() one or more times has exactly one
\* optimistic write and at most one queue offer: one if the processor was
\* ready at the first call, none if it was not; nothing is offered or written
\* for an id that was never passed to offer().
C1_AtMostOnceAdmission ==
    /\ [](\A id \in Ids :
            /\ id \in queuedMessageIds =>
                  Occurrences(offered, id) <= 1 /\ writeCount[id] = 1
            /\ id \notin queuedMessageIds =>
                  Occurrences(offered, id) = 0 /\ writeCount[id] = 0)
    /\ [][\A id \in Ids :
            /\ Occurrences(offered', id) >= Occurrences(offered, id)
            /\ id \notin queuedMessageIds /\ id \in queuedMessageIds' =>
                  Occurrences(offered', id) = IF ProcessorReady THEN 1 ELSE 0]_vars

\* every id was admitted and offered once, and offer() was called again since
C1_Witness ==
    /\ lastOffer = [fresh |-> FALSE, ret |-> "undefined"]
    /\ queuedMessageIds = Ids
    /\ \A id \in Ids : Occurrences(offered, id) = 1 /\ writeCount[id] = 1

\* C2 as stated: offer(id) for an id already in queuedMessageIds returns
\* false and leaves queuedMessageIds, readMessageIds and the queue unchanged.
C2_DuplicateReturnsFalse ==
    [][DuplicateCall =>
         /\ lastOffer'.ret = "false"
         /\ UNCHANGED <<queuedMessageIds, readMessageIds, markAsReadQueue,
                        offered, writeCount>>]_vars

\* C2 amended: offer(id) for an id already in queuedMessageIds returns
\* undefined (offer returns no value on any path) and leaves queuedMessageIds,
\* readMessageIds and the queue unchanged: no second offer, no second write.
C2_DuplicateIsNoOp ==
    [][DuplicateCall =>
         /\ lastOffer'.ret = "undefined"
         /\ UNCHANGED <<queuedMessageIds, readMessageIds, markAsReadQueue,
                        offered, writeCount>>]_vars

\* offer() was called for an id that was queued already and that the view of
\* the current hook instance does not hold
C2_Witness ==
    /\ lastOffer = [fresh |-> FALSE, ret |-> "undefined"]
    /\ queuedMessageIds # {}
    /\ readMessageIds = {}
    /\ \A id \in queuedMessageIds : writeCount[id] = 1

\* C3: offer(id) for an id not yet in queuedMessageIds, while the batch
\* processor is not ready, drops the queue offer without error and still
\* inserts id into queuedMessageIds and readMessageIds.
C3_LocalFirstAdmission ==
    [][\A id \in Ids :
         (id \notin queuedMessageIds /\ ~ProcessorReady /\ CallOf(id)) =>
            /\ id \in queuedMessageIds'
            /\ id \in readMessageIds'
            /\ writeCount'[id] = 1
            /\ markAsReadQueue' = markAsReadQueue
            /\ offered' = offered
            /\ lastOffer'.ret = "undefined"]_vars

\* an id was admitted before the processor was ready
C3_Witness ==
    /\ ~ProcessorReady
    /\ lastOffer.fresh
    /\ queuedMessageIds # {}
    /\ queuedMessageIds \subseteq readMessageIds
    /\ markAsReadQueue = <<>>
    /\ offered = <<>>

\* C4: an id that is in readMessageIds stays in it, whatever step is taken
\* (offers, batching, dispatch, retries, failures, latch changes, a new hook
\* instance).
C4_OptimisticAddOnly ==
    [][\A id \in Ids : id \in readMessageIds => id \in readMessageIds']_vars

\* C5: markAsRead is never invoked while the latch is closed: neither the
\* first attempt of a batch nor a retry.
C5_GateSuspension ==
    [][\A i \in 1..Len(batches) : CallStarted(i) => LatchOpen /\ LatchOpen']_vars

\* a retry whose back-off is over is held back by the closed latch while
\* further ids pile up in the window
C5_Witness ==
    /\ ~LatchOpen
    /\ window # <<>>
    /\ \E i \in 1..Len(batches) : AwaitsLatch(batches[i]) /\ batches[i].waited

\* C6: at most one batch is in its delivery sequence (awaiting the latch, in
\* a call or backing off); a batch exists only once every batch before it has
\* succeeded or failed.
C6_OneBatchInFlight ==
    \A i \in 1..Len(batches) : i < Len(batches) => Terminal(batches[i])

\* the timer of the next window has run out with ids collected, yet no batch
\* is emitted while the batch before it is backing off
C6_Witness ==
    /\ Len(batches) >= 1
    /\ batches[Len(batches)].status = "RETRYING"
    /\ window # <<>>
    /\ windowLeft = 0

\* C7 as stated: markAsRead is attempted at most 3 times for a batch.
C7_AtMostThreeAttempts ==
    \A i \in 1..Len(batches) : batches[i].attempts <= 3

\* C7 amended: markAsRead is attempted at most 4 times for a batch (the
\* first attempt and 3 retries); a batch fails only when its 4th attempt
\* fails, and a failed batch gets no further attempt.
C7_AtMostFourAttempts ==
    /\ [](\A i \in 1..Len(batches) : batches[i].attempts <= 4)
    /\ [][\A i \in 1..Len(batches) :
            /\ (batches[i].status # "FAILED" /\ batches'[i].status = "FAILED") =>
                  batches[i].status = "ELIGIBLE" /\ batches[i].attempts = 4
            /\ batches[i].status = "FAILED" => batches'[i] = batches[i]]_vars

\* the 4th attempt of a batch is in flight
C7_Witness ==
    \E i \in 1..Len(batches) :
        batches[i].status = "ELIGIBLE" /\ batches[i].attempts = 4

\* C8 as stated: a retry starts exactly base * 2^k after failed attempt
\* k + 1.
C8_ExactDelay ==
    \A i \in 1..Len(batches) :
        (batches[i].status = "ELIGIBLE" /\ batches[i].attempts >= 2) =>
            batches[i].gap = 500 * Pow(2, batches[i].attempts - 2)

\* C8 amended: a retry starts no earlier than base * 2^k after failed
\* attempt k + 1 (base 500 ms, no jitter), and exactly then unless the latch
\* was closed when the delay was over; a batch that has succeeded is not
\* attempted again.
C8_RetrySchedule ==
    /\ [](\A i \in 1..Len(batches) :
            (batches[i].status = "ELIGIBLE" /\ batches[i].attempts >= 2) =>
               /\ batches[i].gap >= 500 * Pow(2, batches[i].attempts - 2)
               /\ \/ batches[i].gap = 500 * Pow(2, batches[i].attempts - 2)
                  \/ batches[i].waited)
    /\ [][\A i \in 1..Len(batches) :
            batches[i].status = "SUCCEEDED" => batches'[i] = batches[i]]_vars

\* the 3rd attempt is in flight, started 1000 ms after the 2nd one failed
C8_Witness ==
    \E i \in 1..Len(batches) :
        /\ batches[i].status = "ELIGIBLE"
        /\ batches[i].attempts = 3
        /\ batches[i].gap = 1000
        /\ ~batches[i].waited

\* C9: a batch that has used up its retries is logged and abandoned; the
\* stream keeps running and pulls the next batch.
C9_FailureIsolated ==
    /\ [](streamState # "failed" /\ (ProcessorReady => streamState = "running"))
    /\ [][\A i \in 1..Len(batches) :
            (batches[i].status # "FAILED" /\ batches'[i].status = "FAILED") =>
                streamState' = "running" /\ Pulling']_vars

\* a batch formed after a failed batch has been sent
C9_Witness ==
    \E i, j \in 1..Len(batches) :
        /\ i < j
        /\ batches[i].status = "FAILED"
        /\ batches[j].status \in {"ELIGIBLE", "SUCCEEDED"}

\* C10: the ids of a batch are in the order in which they were offered to
\* the queue, and so are the ids still in the window and in the queue.
C10_IntraBatchOrder ==
    /\ \A i \in 1..Len(batches) : InOfferOrder(batches[i].ids)
    /\ InOfferOrder(window \o markAsReadQueue)

\* a batch of two ids that were offered against their numeric order
C10_Witness ==
    \E i \in 1..Len(batches) :
        /\ Len(batches[i].ids) >= 2
        /\ batches[i].ids[1] > batches[i].ids[2]
        /\ offered = batches[i].ids

\* the ids of the batches of bs, batch after batch
RECURSIVE BatchedIds(_)
BatchedIds(bs) ==
    IF bs = <<>> THEN <<>> ELSE Head(bs).ids \o BatchedIds(Tail(bs))

\* markAsRead has been invoked at least once for a batch that holds id
Dispatched(id) ==
    \E i \in 1..Len(batches) :
        /\ \E p \in 1..Len(batches[i].ids) : batches[i].ids[p] = id
        /\ batches[i].status # "PENDING"

\* C11: batches are handed to markAsRead in the order in which they were
\* formed, the latch having been closed in between or not: a batch has its
\* first attempt only when every batch formed before it is over, the ids run
\* through batches, window and queue in the order they were offered, and an
\* id offered earlier is never first sent after an id offered later.
C11_InterBatchOrder ==
    /\ BatchedIds(batches) \o window \o markAsReadQueue = offered
    /\ \A i, j \in 1..Len(batches) :
          (i < j /\ batches[j].status # "PENDING") => Terminal(batches[i])
    /\ \A p, q \in 1..Len(offered) :
          (p < q /\ Dispatched(offered[q])) => Dispatched(offered[p])

\* the second batch is being sent after it waited for the closed latch to
\* open, the first batch is over
C11_Witness ==
    /\ Len(batches) = 2
    /\ Terminal(batches[1])
    /\ batches[2].status = "ELIGIBLE"
    /\ batches[2].waited

\* a batch is emitted in this step
BatchEmitted == Len(batches') > Len(batches)

\* C12: every batch holds at least one id and at most BatchSize (25) ids,
\* however many ids are waiting, and so does the window; a timer that fires
\* on an empty window emits no batch and ends no window.
C12_BatchSizeBound ==
    /\ [](\A i \in 1..Len(batches) :
            Len(batches[i].ids) >= 1 /\ Len(batches[i].ids) <= BatchSize)
    /\ [](Len(window) <= BatchSize)
    /\ [][(TimerFires /\ window = <<>>) =>
            (batches' = batches /\ window' = <<>> /\ ~sinkEnded')]_vars
    /\ [][BatchEmitted => window # <<>>]_vars

\* a full batch and a partial one have been emitted, and the timer has then
\* fired on an empty window without a third
C12_Witness ==
    /\ Len(batches) = 2
    /\ Len(batches[1].ids) = BatchSize
    /\ Len(batches[2].ids) < BatchSize
    /\ window = <<>>
    /\ endAfterEmit

\* C13: a batch is emitted only when the window holds BatchSize (25) ids or
\* when it holds at least one id and WindowMs (5 s) have passed since the
\* window opened: a batch of fewer ids never comes before the timer of its
\* window has run out; the timer is started anew when a window opens and is
\* run down by the passing of time alone.
C13_CountOrTime ==
    /\ [][BatchEmitted =>
            /\ batches' = Append(batches, NewBatch(window))
            /\ Len(window) = BatchSize \/ (Len(window) >= 1 /\ windowLeft = 0)
            /\ window' = <<>>
            /\ windowLeft' = WindowMs]_vars
    /\ [][windowLeft' < windowLeft =>
            (Tick /\ windowLeft' = windowLeft - BaseDelayMs)]_vars
    /\ [][windowLeft' > windowLeft =>
            (windowLeft' = WindowMs /\ window' = <<>>)]_vars

\* a window has ended by count while its timer was still running
C13_Witness ==
    /\ sinkEnded
    /\ ~endAfterEmit
    /\ Len(window) = BatchSize
    /\ windowLeft > 0

\* C14 as stated: a window that holds ids is emitted at most WindowMs (5 s)
\* after its first id arrived, also while the latch is closed or a previous
\* batch is still being delivered.
C14_FlushWithinWindow == firstAge <= WindowMs

\* C14 amended: time passes beyond WindowMs (5 s) after the first id of a
\* window arrived only while a previous batch is still being delivered (it
\* waits for the latch, for a call or for a back-off); with no batch in
\* delivery the window is emitted at the latest when the 5 s are over, and
\* the timer of a window never runs for more than WindowMs.
C14_FlushWithinWindowWhenIdle ==
    /\ [][(Tick /\ window # <<>> /\ firstAge >= WindowMs) => ~Pulling]_vars
    /\ [](windowLeft <= WindowMs)
    /\ []((firstAge >= WindowMs /\ Running) => windowLeft = 0)

\* the first id of the window arrived more than 5 s ago and is still not
\* emitted: the previous batch waits for the closed latch
C14_Witness ==
    /\ firstAge > WindowMs
    /\ window # <<>>
    /\ ~Pulling
    /\ ~LatchOpen

\* C15: if from some moment on the latch stays open, every id that was
\* offered to the queue is eventually in a batch for which markAsRead has
\* been invoked at least once, whether the latch was open or closed when
\* the id was offered.
C15_EveryOfferDispatched ==
    (<>[]LatchOpen) =>
        \A id \in Ids :
            [](Occurrences(offered, id) > 0 => <>Dispatched(id))

\* every id was offered, each in a batch of its own, and every batch has
\* been sent
C15_Witness ==
    /\ Len(offered) = MaxIds
    /\ Len(batches) = MaxIds
    /\ \A p \in 1..Len(offered) : Dispatched(offered[p])

\* id went through offer() while the processor was not ready: it was written
\* to the read state and not offered to the queue
Dropped(id) == writeCount[id] > 0 /\ Occurrences(offered, id) = 0

\* id is in the queue, in the window or in a batch
InPipeline(id) ==
    LET all == BatchedIds(batches) \o window \o markAsReadQueue
    IN \E p \in 1..Len(all) : all[p] = id

DispatchStep ==
    \E i \in 1..Len(batches) :
        StartCall(i) \/ RetryAttempt(i) \/ CallSucceeds(i) \/ CallFails(i)

\* the number of places id has in the queue, the window and the batches
PipelineCount(id) ==
    Occurrences(BatchedIds(batches) \o window \o markAsReadQueue, id)

\* C17: no step of the dispatcher changes queuedMessageIds, readMessageIds,
\* the queue or the window; a batch that reached FAILED stays as it is, and
\* each of its ids is in that batch only, neither back in the queue or the
\* window nor in a later batch.
C17_DispatchFrame ==
    /\ [][DispatchStep =>
            UNCHANGED <<queuedMessageIds, readMessageIds, markAsReadQueue,
                        window, offered, writeCount>>]_vars
    /\ [](\A i \in 1..Len(batches) :
            batches[i].status = "FAILED" =>
                \A p \in 1..Len(batches[i].ids) :
                    PipelineCount(batches[i].ids[p]) = 1)
    /\ [][\A i \in 1..Len(batches) :
            batches[i].status = "FAILED" => batches'[i] = batches[i]]_vars

\* the only batch is abandoned; its ids are still marked read and still in
\* the dedup set, the queue and the window are empty
C17_Witness ==
    /\ Len(batches) = 1
    /\ batches[1].status = "FAILED"
    /\ \A p \in 1..Len(batches[1].ids) :
          /\ batches[1].ids[p] \in readMessageIds
          /\ batches[1].ids[p] \in queuedMessageIds
    /\ markAsReadQueue = <<>>
    /\ window = <<>>

\* the transitions of the delivery of one batch
DeliveryTransitions ==
    { <<"PENDING", "ELIGIBLE">>,
      <<"ELIGIBLE", "SUCCEEDED">>,
      <<"ELIGIBLE", "RETRYING">>,
      <<"ELIGIBLE", "FAILED">>,
      <<"RETRYING", "ELIGIBLE">> }

\* C18: a batch is emitted PENDING and its status changes only along
\* PENDING -> ELIGIBLE -> {SUCCEEDED, RETRYING, FAILED} and RETRYING ->
\* ELIGIBLE; a batch that is SUCCEEDED or FAILED never changes again, so
\* markAsRead is invoked only for a batch that is PENDING or RETRYING.
C18_DeliveryStateMachine ==
    /\ [][BatchEmitted => batches'[Len(batches')].status = "PENDING"]_vars
    /\ [][\A i \in 1..Len(batches) :
            /\ i <= Len(batches')
            /\ \/ batches'[i].status = batches[i].status
               \/ <<batches[i].status, batches'[i].status>> \in DeliveryTransitions
            /\ Terminal(batches[i]) => batches'[i] = batches[i]
            /\ CallStarted(i) => batches[i].status \in {"PENDING", "RETRYING"}]_vars
    /\ [](\A i \in 1..Len(batches) :
            batches[i].status \in
                {"PENDING", "ELIGIBLE", "RETRYING", "SUCCEEDED", "FAILED"})

\* one batch is over with SUCCEEDED and the next one, back from RETRYING
\* twice, is in the back-off after its third attempt
C18_Witness ==
    /\ Len(batches) = 2
    /\ batches[1].status = "SUCCEEDED"
    /\ batches[2].status = "RETRYING"
    /\ batches[2].attempts = RetryTimes

\* C19: once the scope of the pipeline is closed it stays closed, no batch
\* is emitted and no batch changes (no first attempt, no retry, no result),
\* and the ids in the window and in the queue stay where they are; what is
\* offered afterwards only lengthens the queue.
C19_NothingAfterTeardown ==
    [][streamState = "closed" =>
         /\ streamState' = "closed"
         /\ batches' = batches
         /\ window' = window
         /\ Len(markAsReadQueue') >= Len(markAsReadQueue)
         /\ SubSeq(markAsReadQueue', 1, Len(markAsReadQueue)) = markAsReadQueue]_vars

\* the scope was closed with a batch waiting for the latch and an id in the
\* window; the latch is open now and the batch is still not sent
C19_Witness ==
    /\ streamState = "closed"
    /\ LatchOpen
    /\ batches # <<>>
    /\ batches[Len(batches)].status = "PENDING"
    /\ window # <<>>

\* C20: an "online" event leaves the monitor online and the latch open, an
\* "offline" event leaves them offline and closed, and no other
\* step (offer, fiber step, attempt, retry, result, passing of time) changes
\* it, so that it has the value it was seeded with until the first event
\* and the value of the last event afterwards.
C20_GateSingleWriter ==
    /\ [][handleOnline => (isOnline' /\ LatchOpen')]_vars
    /\ [][handleOffline => (~isOnline' /\ ~LatchOpen')]_vars
    /\ [][(isOnline' # isOnline \/ LatchOpen' # LatchOpen) =>
            (handleOnline \/ handleOffline)]_vars

\* an "offline" event came after a batch had been delivered: the latch is
\* closed and the next batch waits for its first attempt
C20_Witness ==
    /\ ~LatchOpen
    /\ Len(batches) = 2
    /\ batches[1].status = "SUCCEEDED"
    /\ batches[2].status = "PENDING"

\* C23: the ids the hook shows as read are exactly the ids of the dedup set.
C23_DedupEqualsOptimistic == readMessageIds = queuedMessageIds

\* the ids of s are pairwise different
NoRepeat(s) == \A p, q \in 1..Len(s) : s[p] = s[q] => p = q

\* C24: every id of a batch is in queuedMessageIds, no id is twice in a
\* batch or in two batches, and every id of a batch that has been sent is
\* in readMessageIds.
C24_BatchesPartitionOffered ==
    /\ \A p \in 1..Len(BatchedIds(batches)) :
          BatchedIds(batches)[p] \in queuedMessageIds
    /\ NoRepeat(BatchedIds(batches))
    /\ \A id \in Ids : Dispatched(id) => id \in readMessageIds

\* C25: the id list of a batch never changes, whatever its state; an id
\* that is offered while a batch is waiting for the latch, in a call or in
\* a back-off is put behind everything the pipeline holds and never into
\* that batch.
C25_BatchImmutable ==
    /\ [][\A i \in 1..Len(batches) :
            i <= Len(batches') /\ batches'[i].ids = batches[i].ids]_vars
    /\ [][offered' # offered =>
            /\ batches' = batches
            /\ window' = window
            /\ markAsReadQueue' # <<>>
            /\ \A id \in Ids :
                  Occurrences(offered', id) > Occurrences(offered, id)
                      => ~InPipeline(id)]_vars

\* the first batch is in its third attempt, and an id that was offered
\* while it waited for the latch is in the next window
C25_Witness ==
    /\ Len(batches) = 1
    /\ batches[1].status = "ELIGIBLE"
    /\ batches[1].attempts = RetryTimes
    /\ batches[1].waited
    /\ window # <<>>
    /\ Len(offered) = Len(batches[1].ids) + Len(window)

\* C21: the readAt the hook returns for a message it shows as read is the
\* time at which offer() ran for that message: it is not taken later, be it
\* at a repeated offer(), at the offer of another message or when the list
\* is fetched again.
C21_StableReadTimestamp ==
    \A id \in DOMAIN messagesWithReadStatus :
        messagesWithReadStatus[id].age >= 0 => messagesWithReadStatus[id].lag = 0

\* C22: offer(id) is called, by the observer callback or by the focus
\* handler, only for a message that is not in readMessageIds and while the
\* window has the input focus (that the message is fully visible is what
\* both callers are given: an intersecting entry at threshold 1, a rect
\* inside the viewport).
C22_AdmissionPrecondition ==
    [][\A id \in Ids :
         CallOf(id) => (hasFocus' /\ id \in unreadMessages)]_vars

====
